---- MODULE Spec2Model ----
(***************************************************************************)
(* Course-management application: the relational store with its row-level *)
(* security policies and uniqueness constraints, the pages that call it,   *)
(* and the service actions with their notification fan-out.                *)
(***************************************************************************)
EXTENDS Integers, FiniteSets, Sequences, TLC

VARIABLES courses, enrollments, assignments, submissions, notifications,
          pending, requests, pages, last

vars == <<courses, enrollments, assignments, submissions, notifications,
          pending, requests, pages, last>>

(***************************************************************************)
(* Bounds of the model.                                                    *)
(***************************************************************************)
MaxCourses == 2
MaxEnrollments == 2
MaxAssignments == 2
MaxSubmissions == 2
MaxNotifications == 4

(***************************************************************************)
(* Principals.  auth.uid() is a user id, or NoUser when the request        *)
(* carries no valid credential.                                            *)
(***************************************************************************)
Admins == {"adm"}
Lecturers == {"lec1", "lec2"}
Students == {"stu1", "stu2"}
Users == Admins \cup Lecturers \cup Students
NoUser == "anon"

\* has_role(uid, role): the one role recorded for the user in user_roles.
has_role(u, r) ==
    \/ r = "admin" /\ u \in Admins
    \/ r = "lecturer" /\ u \in Lecturers
    \/ r = "student" /\ u \in Students

\* Nullable columns: NULL is the empty tuple, a value v is <<v>>.
Null == <<>>
Some(v) == <<v>>

NoRow == [none |-> TRUE]

CourseIds == 1..MaxCourses
Titles == {"t1", "t2"}

(***************************************************************************)
(* The outcome of one store statement.                                     *)
(*   Ok        the statement ran; n rows were affected or returned         *)
(*   Forbidden a new row violates the row-level security policy (42501)    *)
(*   Conflict  a uniqueness constraint is violated (23505)                 *)
(*   NotFound  a foreign key names a row that does not exist (23503)       *)
(***************************************************************************)
Results == {"Ok", "Forbidden", "Conflict", "NotFound", "None", "Unauthenticated",
            "StoreError", "NotificationError"}

\* What the last statement was and what it did: the caller, the result, the
\* number of rows affected, the row before and after, the rows returned, and
\* the rows of the table before the statement.
Outcome(op, actor, result, n, old, new, rows, before) ==
    [op |-> op, actor |-> actor, result |-> result, n |-> n,
     old |-> old, new |-> new, rows |-> rows, before |-> before]

NoOutcome == Outcome("none", NoUser, "None", 0, NoRow, NoRow, {}, {})

\* The requests a protected service is handling: each slot is one request of
\* one caller, from its arrival to its response.
Slots == {"req1", "req2"}

\* A request: the phase it is in, the credential it came with, the kind of
\* its failure, whether its caller is still connected, the row its mutation
\* wrote, and what became of its fan-out.
Request(phase, caller, kind, connected, entity, fanout) ==
    [phase |-> phase, caller |-> caller, kind |-> kind, connected |-> connected,
     entity |-> entity, fanout |-> fanout]

NoRequest == Request("Idle", NoUser, "None", TRUE, NoRow, "none")

NoRequests == [r \in Slots |-> NoRequest]

\* The pages that fetch on mount. A page: where its fetch stands, its loading
\* flag, whether the fetched data was set, and whether an error toast was shown.
Pages == {"EnrollmentsPage", "StudentDashboard", "AnalyticsPage"}

Page(pc, loading, data, toast) ==
    [pc |-> pc, loading |-> loading, data |-> data, toast |-> toast]

\* useState(true): a page starts in the Loading state.
NoPages == [p \in Pages |-> Page("idle", TRUE, FALSE, FALSE)]

(***************************************************************************)
(* Row-level security of an INSERT: the new row must pass WITH CHECK, then *)
(* the uniqueness constraint, then the foreign keys.                       *)
(***************************************************************************)
InsertResult(check, duplicate, fk) ==
    IF ~check THEN "Forbidden"
    ELSE IF duplicate THEN "Conflict"
    ELSE IF ~fk THEN "NotFound"
    ELSE "Ok"

(***************************************************************************)
(* Row-level security of an UPDATE: a row that fails USING is not visible  *)
(* to the statement, which then affects zero rows without an error; a      *)
(* visible row whose new version fails WITH CHECK is an error.             *)
(***************************************************************************)
UpdateResult(using, check) ==
    IF ~using THEN "Ok"
    ELSE IF ~check THEN "Forbidden"
    ELSE "Ok"

UpdateCount(using, check) == IF using /\ check THEN 1 ELSE 0

(***************************************************************************)
(* courses                                                                 *)
(***************************************************************************)
CourseRow(id, u, t) == [id |-> id, created_by |-> u, lecturer_id |-> u, title |-> t]

CourseById(id) == CHOOSE c \in courses : c.id = id

\* Lecturers and admins create courses; the creator becomes created_by.
CourseInsertCheck(u, row) ==
    \/ has_role(u, "admin")
    \/ has_role(u, "lecturer") /\ row.created_by = u

\* Admins manage every course, a lecturer the courses they created.
CourseManageUsingAnyLecturer(u, row) ==
    \/ has_role(u, "admin")
    \/ has_role(u, "lecturer")
CourseManageUsing(u, row) ==
    \/ has_role(u, "admin")
    \/ has_role(u, "lecturer") /\ row.created_by = u

FreeCourseIds == CourseIds \ {c.id : c \in courses}

CreateCourse(u, t) ==
    /\ FreeCourseIds # {}
    /\ LET id == CHOOSE i \in FreeCourseIds : \A j \in FreeCourseIds : i <= j
           row == CourseRow(id, u, t)
           res == InsertResult(CourseInsertCheck(u, row), FALSE, TRUE)
       IN /\ courses' = IF res = "Ok" THEN courses \cup {row} ELSE courses
          /\ last' = Outcome("createCourse", u, res, IF res = "Ok" THEN 1 ELSE 0,
                             NoRow, row, {}, courses)
    /\ UNCHANGED <<enrollments, assignments, submissions, notifications, pending, requests, pages>>

UpdateCourse(u, id, t) ==
    /\ \E c \in courses : c.id = id
    /\ LET old == CourseById(id)
           new == [old EXCEPT !.title = t]
           using == CourseManageUsing(u, old)
           check == CourseManageUsing(u, new)
           n == UpdateCount(using, check)
       IN /\ courses' = IF n = 1 THEN (courses \ {old}) \cup {new} ELSE courses
          /\ last' = Outcome("updateCourse", u, UpdateResult(using, check), n,
                             old, new, {}, courses)
    /\ UNCHANGED <<enrollments, assignments, submissions, notifications, pending, requests, pages>>

\* Deleting a course cascades to its enrollments and assignments, and from
\* the assignments to their submissions.
DeleteCourse(u, id) ==
    /\ \E c \in courses : c.id = id
    /\ LET old == CourseById(id)
           using == CourseManageUsing(u, old)
           gone == {a.id : a \in {x \in assignments : x.course_id = id}}
       IN /\ courses' = IF using THEN courses \ {old} ELSE courses
          /\ enrollments' = IF using THEN {e \in enrollments : e.course_id # id}
                            ELSE enrollments
          /\ assignments' = IF using THEN {a \in assignments : a.course_id # id}
                            ELSE assignments
          /\ submissions' = IF using THEN {s \in submissions : s.assignment_id \notin gone}
                            ELSE submissions
          /\ last' = Outcome("deleteCourse", u, "Ok", IF using THEN 1 ELSE 0,
                             old, NoRow,
                             IF using THEN {s \in submissions : s.assignment_id \in gone}
                             ELSE {},
                             courses)
    /\ UNCHANGED <<notifications, pending, requests, pages>>

(***************************************************************************)
(* The data the other tables start from: two courses of two lecturers.     *)
(***************************************************************************)
FixtureCourses == {CourseRow(1, "lec1", "t1"), CourseRow(2, "lec2", "t1")}

(***************************************************************************)
(* enrollments                                                             *)
(***************************************************************************)
Statuses == {"active", "withdrawn"}

\* status TEXT NOT NULL DEFAULT 'active'
DefaultStatus == "active"

\* The rows of enrollments that carry the pair (student_id, course_id).
EnrollmentsOf(sid, cid) ==
    {e \in enrollments : e.student_id = sid /\ e.course_id = cid}

\* id is an opaque unique token: the pair and the number of rows that
\* already carry the pair when the row is generated.
EnrollmentRow(sid, cid) ==
    [id |-> <<sid, cid, Cardinality(EnrollmentsOf(sid, cid))>>,
     student_id |-> sid, course_id |-> cid, status |-> DefaultStatus]

\* UNIQUE(student_id, course_id)
EnrollmentNeverDuplicate(row) == FALSE
EnrollmentDuplicate(row) == EnrollmentsOf(row.student_id, row.course_id) # {}

\* course_id REFERENCES public.courses(id)
EnrollmentForeignKeyNone(row) == TRUE
EnrollmentForeignKey(row) == \E c \in courses : c.id = row.course_id

\* "Students can view their own enrollments", "Lecturers can view
\* enrollments for their courses", "Admins can manage all enrollments".
EnrollmentSelectUsing(u, row) ==
    \/ u = row.student_id
    \/ /\ has_role(u, "lecturer")
       /\ row.course_id \in {c.id : c \in {x \in courses : x.created_by = u}}
    \/ has_role(u, "admin")

\* "Students can enroll in courses", "Admins can manage all enrollments".
EnrollmentInsertCheckAnyRole(u, row) == u = row.student_id \/ has_role(u, "admin")
EnrollmentInsertCheck(u, row) ==
    \/ u = row.student_id /\ has_role(u, "student")
    \/ has_role(u, "admin")

\* Only "Admins can manage all enrollments" covers UPDATE and DELETE.
EnrollmentManageUsing(u, row) == has_role(u, "admin")

\* insert into enrollments (student_id, course_id), run as user u.
EnrollmentInsert(op, u, sid, cid) ==
    LET row == EnrollmentRow(sid, cid)
        dup == EnrollmentsOf(sid, cid)
        res == InsertResult(EnrollmentInsertCheck(u, row), EnrollmentDuplicate(row),
                            EnrollmentForeignKey(row))
    IN /\ enrollments' = IF res = "Ok" THEN enrollments \cup {row} ELSE enrollments
       /\ last' = Outcome(op, u, res, IF res = "Ok" THEN 1 ELSE 0,
                          IF dup = {} THEN NoRow ELSE CHOOSE e \in dup : TRUE,
                          row, {}, enrollments)

(***************************************************************************)
(* StudentDashboard.handleEnroll: resolve the user, then insert the row.   *)
(* The two awaits are separate steps, so attempts of several clients       *)
(* interleave.                                                             *)
(***************************************************************************)
\* The users that open the student dashboard in the model.
DashboardUsers == Students \cup {NoUser}

\* The insert requests in flight: how many attempts of each user for each
\* course have resolved their user and not yet reached the store.
Requests == (DashboardUsers \ {NoUser}) \X {c.id : c \in FixtureCourses}

\* The browser tabs whose attempts run concurrently.
Clients == {"tab1", "tab2"}

NoPending == [r \in Requests |-> 0]

\* The number of requests in flight.
RECURSIVE SumPending(_, _)
SumPending(p, rs) ==
    IF rs = {} THEN 0
    ELSE LET r == CHOOSE x \in rs : TRUE IN p[r] + SumPending(p, rs \ {r})

InFlight == SumPending(pending, {r \in Requests : pending[r] > 0})

\* The table takes a further row only below the bound of the model.
RoomFor(res, table, max) == res = "Ok" => Cardinality(table) < max

HandleEnrollGetUser(u, cid) ==
    /\ InFlight < Cardinality(Clients)
    /\ IF u = NoUser
       THEN /\ pending' = pending
            /\ last' = Outcome("enroll", u, "None", 0, NoRow, NoRow, {}, enrollments)
       ELSE /\ pending' = [pending EXCEPT ![<<u, cid>>] = @ + 1]
            /\ last' = Outcome("getUser", u, "Ok", 0, NoRow, NoRow, {}, enrollments)
    /\ UNCHANGED <<courses, enrollments, assignments, submissions, notifications,
                   requests, pages>>

HandleEnrollInsert(u, cid) ==
    /\ pending[<<u, cid>>] > 0
    /\ EnrollmentInsert("enroll", u, u, cid)
    /\ RoomFor(last'.result, enrollments, MaxEnrollments)
    /\ pending' = [pending EXCEPT ![<<u, cid>>] = @ - 1]
    /\ UNCHANGED <<courses, assignments, submissions, notifications, requests, pages>>

\* enrollment-service 'enroll' with a student_id chosen by the caller.
InsertEnrollment(u, sid, cid) ==
    /\ EnrollmentInsert("insertEnrollment", u, sid, cid)
    /\ RoomFor(last'.result, enrollments, MaxEnrollments)
    /\ UNCHANGED <<courses, assignments, submissions, notifications, pending, requests, pages>>

\* enrollment-service 'list' without a filter: the rows the policies show.
SelectEnrollments(u) ==
    /\ LET rows == {e \in enrollments : EnrollmentSelectUsing(u, e)}
       IN last' = Outcome("selectEnrollments", u, "Ok", Cardinality(rows),
                          NoRow, NoRow, rows, enrollments)
    /\ UNCHANGED <<courses, enrollments, assignments, submissions, notifications,
                   pending, requests, pages>>

\* enrollment-service 'update-status'
UpdateEnrollmentStatus(u, e, st) ==
    /\ e \in enrollments
    /\ LET new == [e EXCEPT !.status = st]
           using == EnrollmentManageUsing(u, e)
           check == EnrollmentManageUsing(u, new)
           n == UpdateCount(using, check)
       IN /\ enrollments' = IF n = 1 THEN (enrollments \ {e}) \cup {new} ELSE enrollments
          /\ last' = Outcome("updateEnrollment", u, UpdateResult(using, check), n,
                             e, new, {}, enrollments)
    /\ UNCHANGED <<courses, assignments, submissions, notifications, pending, requests, pages>>

\* enrollment-service 'unenroll'
DeleteEnrollment(u, e) ==
    /\ e \in enrollments
    /\ LET using == EnrollmentManageUsing(u, e)
       IN /\ enrollments' = IF using THEN enrollments \ {e} ELSE enrollments
          /\ last' = Outcome("deleteEnrollment", u, "Ok", IF using THEN 1 ELSE 0,
                             e, NoRow, {}, enrollments)
    /\ UNCHANGED <<courses, assignments, submissions, notifications, pending, requests, pages>>

(***************************************************************************)
(* assignments                                                             *)
(***************************************************************************)
AssignmentIds == 1..MaxAssignments

AssignmentRow(id, cid, u) == [id |-> id, course_id |-> cid, created_by |-> u]

FixtureAssignments == {AssignmentRow(1, 1, "lec1"), AssignmentRow(2, 2, "lec2")}

\* Every authenticated user may read the course catalogue.
CourseSelectUsing(u, row) == u \in Users

\* SELECT id FROM public.courses WHERE created_by = auth.uid()
OwnCourseIds(u) ==
    {c.id : c \in {x \in courses : CourseSelectUsing(u, x) /\ x.created_by = u}}

\* SELECT course_id FROM public.enrollments WHERE student_id = auth.uid()
EnrolledCourseIds(u) ==
    {e.course_id : e \in {x \in enrollments :
        EnrollmentSelectUsing(u, x) /\ x.student_id = u}}

\* "Lecturers can manage their course assignments", "Admins can manage all
\* assignments": FOR ALL, so the same test is USING and WITH CHECK.
AssignmentManageUsing(u, row) ==
    \/ has_role(u, "lecturer") /\ row.course_id \in OwnCourseIds(u)
    \/ has_role(u, "admin")

\* "Students can view assignments for enrolled courses" and the two above.
AssignmentSelectUsingAll(u, row) == TRUE
AssignmentSelectUsing(u, row) ==
    \/ row.course_id \in EnrolledCourseIds(u)
    \/ AssignmentManageUsing(u, row)

\* course_id REFERENCES public.courses(id)
AssignmentForeignKey(row) == \E c \in courses : c.id = row.course_id

FreeAssignmentIds == AssignmentIds \ {a.id : a \in assignments}

NextAssignmentId == CHOOSE i \in FreeAssignmentIds : \A j \in FreeAssignmentIds : i <= j

\* insert into assignments, run as user u who names themselves created_by.
InsertAssignment(u, cid) ==
    /\ FreeAssignmentIds # {}
    /\ LET row == AssignmentRow(NextAssignmentId, cid, u)
           res == InsertResult(AssignmentManageUsing(u, row), FALSE,
                               AssignmentForeignKey(row))
       IN /\ assignments' = IF res = "Ok" THEN assignments \cup {row} ELSE assignments
          /\ last' = Outcome("insertAssignment", u, res, IF res = "Ok" THEN 1 ELSE 0,
                             NoRow, row, {}, assignments)
    /\ UNCHANGED <<courses, enrollments, submissions, notifications, pending, requests, pages>>

\* Deleting an assignment cascades to its submissions.
DeleteAssignment(u, a) ==
    /\ a \in assignments
    /\ LET using == AssignmentManageUsing(u, a)
       IN /\ assignments' = IF using THEN assignments \ {a} ELSE assignments
          /\ submissions' = IF using THEN {s \in submissions : s.assignment_id # a.id}
                            ELSE submissions
          /\ last' = Outcome("deleteAssignment", u, "Ok", IF using THEN 1 ELSE 0,
                             a, NoRow, {}, assignments)
    /\ UNCHANGED <<courses, enrollments, notifications, pending, requests, pages>>

\* AnalyticsPage.fetchAnalytics: from("assignments").select().eq("course_id", c).
\* Rows that fail the SELECT policy are left out of the result without an error.
SelectAssignments(u, cid) ==
    /\ LET rows == {a \in assignments : a.course_id = cid /\ AssignmentSelectUsing(u, a)}
       IN last' = Outcome("selectAssignments", u, "Ok", Cardinality(rows),
                          NoRow, [course_id |-> cid], rows, assignments)
    /\ UNCHANGED <<courses, enrollments, assignments, submissions, notifications,
                   pending, requests, pages>>

(***************************************************************************)
(* submissions                                                             *)
(***************************************************************************)
Contents == {"answer", "answer2"}

\* The grade and feedback a grader enters.
GradeValue == 85
FeedbackValue == "Great work!"

SubmissionsOf(aid, sid) ==
    {x \in submissions : x.assignment_id = aid /\ x.student_id = sid}

SubmissionRow(aid, sid, c) ==
    [id |-> <<aid, sid, Cardinality(SubmissionsOf(aid, sid))>>,
     assignment_id |-> aid, student_id |-> sid, content |-> c,
     grade |-> Null, feedback |-> Null, graded_at |-> Null, graded_by |-> Null]

\* UNIQUE(assignment_id, student_id)
SubmissionNeverDuplicate(row) == FALSE
SubmissionDuplicate(row) == SubmissionsOf(row.assignment_id, row.student_id) # {}

\* assignment_id REFERENCES public.assignments(id)
SubmissionForeignKey(row) == \E a \in assignments : a.id = row.assignment_id

\* SELECT a.id FROM assignments a JOIN courses c ON a.course_id = c.id
\* WHERE c.created_by = auth.uid()
OwnAssignmentIdsAnyCourse(u) == {a.id : a \in assignments}
OwnAssignmentIds(u) ==
    {a.id : a \in {x \in assignments :
        AssignmentSelectUsing(u, x) /\ x.course_id \in OwnCourseIds(u)}}

\* "Lecturers can view / grade submissions for their assignments"
SubmissionLecturerUsing(u, row) ==
    has_role(u, "lecturer") /\ row.assignment_id \in OwnAssignmentIds(u)

\* "Students can view their own submissions" and the lecturer and admin policies.
SubmissionSelectUsingAll(u, row) == TRUE
SubmissionSelectUsing(u, row) ==
    \/ u = row.student_id
    \/ SubmissionLecturerUsing(u, row)
    \/ has_role(u, "admin")

\* "Students can create their own submissions", "Admins can manage all submissions".
SubmissionInsertCheck(u, row) ==
    \/ u = row.student_id /\ has_role(u, "student")
    \/ has_role(u, "admin")

\* "Students can update their own ungraded submissions" and the lecturer and
\* admin policies; no policy has a WITH CHECK of its own, so the new row is
\* held to the same test.
SubmissionUpdateUsingGraded(u, row) ==
    \/ u = row.student_id
    \/ SubmissionLecturerUsing(u, row)
    \/ has_role(u, "admin")
SubmissionUpdateUsing(u, row) ==
    \/ u = row.student_id /\ row.grade = Null
    \/ SubmissionLecturerUsing(u, row)
    \/ has_role(u, "admin")

\* insert into submissions (assignment_id, student_id, content), run as u.
SubmissionInsert(op, u, aid, sid, c) ==
    LET row == SubmissionRow(aid, sid, c)
        dup == SubmissionsOf(aid, sid)
        res == InsertResult(SubmissionInsertCheck(u, row), SubmissionDuplicate(row),
                            SubmissionForeignKey(row))
    IN /\ submissions' = IF res = "Ok" THEN submissions \cup {row} ELSE submissions
       /\ last' = Outcome(op, u, res, IF res = "Ok" THEN 1 ELSE 0,
                          IF dup = {} THEN NoRow ELSE CHOOSE x \in dup : TRUE,
                          row, {}, submissions)

\* update submissions set ... where id = old.id, run as u.
SubmissionUpdate(op, u, old, new) ==
    LET using == SubmissionSelectUsing(u, old) /\ SubmissionUpdateUsing(u, old)
        check == SubmissionUpdateUsing(u, new)
        n == UpdateCount(using, check)
    IN /\ submissions' = IF n = 1 THEN (submissions \ {old}) \cup {new} ELSE submissions
       /\ last' = Outcome(op, u, UpdateResult(using, check), n, old, new, {}, submissions)

InsertSubmission(u, aid, sid, c) ==
    /\ SubmissionInsert("insertSubmission", u, aid, sid, c)
    /\ RoomFor(last'.result, submissions, MaxSubmissions)
    /\ UNCHANGED <<courses, enrollments, assignments, notifications, pending, requests, pages>>

\* The student's page: update({ content }).eq("id", id)
UpdateSubmissionContent(u, old, c) ==
    /\ old \in submissions
    /\ SubmissionUpdate("updateSubmission", u, old, [old EXCEPT !.content = c])
    /\ UNCHANGED <<courses, enrollments, assignments, notifications, pending, requests, pages>>

\* LecturerSubmissionsPage: update({ grade, feedback, graded_by: user.id,
\* graded_at: now }).eq("id", submissionId)
Graded(old, u) ==
    [old EXCEPT !.grade = Some(GradeValue), !.feedback = Some(FeedbackValue),
                !.graded_by = Some(u), !.graded_at = Some("now")]

GradeSubmission(u, old) ==
    /\ old \in submissions
    /\ SubmissionUpdate("gradeSubmission", u, old, Graded(old, u))
    /\ UNCHANGED <<courses, enrollments, assignments, notifications, pending, requests, pages>>

SelectSubmissions(u) ==
    /\ LET rows == {x \in submissions : SubmissionSelectUsing(u, x)}
       IN last' = Outcome("selectSubmissions", u, "Ok", Cardinality(rows),
                          NoRow, NoRow, rows, submissions)
    /\ UNCHANGED <<courses, enrollments, assignments, submissions, notifications,
                   pending, requests, pages>>

InitEmpty ==
    /\ courses = {}
    /\ enrollments = {}
    /\ assignments = {}
    /\ submissions = {}
    /\ notifications = {}
    /\ pending = NoPending
    /\ requests = NoRequests
    /\ pages = NoPages
    /\ last = NoOutcome

NextCourse ==
    \/ \E u \in Users, t \in Titles : CreateCourse(u, t)
    \/ \E u \in Users, id \in CourseIds, t \in Titles : UpdateCourse(u, id, t)
    \/ \E u \in Users, id \in CourseIds : DeleteCourse(u, id)

SpecCourse == InitEmpty /\ [][NextCourse]_vars

(***************************************************************************)
(* C1: updating a course is allowed for a principal if and only if the     *)
(* principal is an admin, or is a lecturer and is the course's created_by; *)
(* a student, and a lecturer who did not create the course, change nothing.*)
(***************************************************************************)
C1_CourseUpdatePolicy ==
    last.op = "updateCourse" =>
        /\ (last.n = 1) <=>
              \/ last.actor \in Admins
              \/ last.actor \in Lecturers /\ last.actor = last.old.created_by
        /\ last.n = 1 => last.new \in courses
        /\ last.n = 0 => last.old \in courses

C1_Witness ==
    /\ last.op = "updateCourse"
    /\ last.n = 1
    /\ last.actor \in Lecturers
    /\ last.new # last.old
    /\ \E c \in courses : c.created_by \in Lecturers \ {last.actor}

InitEnroll ==
    /\ courses = FixtureCourses
    /\ enrollments = {}
    /\ assignments = {}
    /\ submissions = {}
    /\ notifications = {}
    /\ pending = NoPending
    /\ requests = NoRequests
    /\ pages = NoPages
    /\ last = NoOutcome

\* The callers of the enrollment statements other than the dashboard, and the
\* principals they name as student_id.
EnrollActors == {"adm", "lec1", "stu2"}
EnrollTargets == {"stu1", "lec1"}

NextEnroll ==
    \/ \E u \in DashboardUsers, c \in courses : HandleEnrollGetUser(u, c.id)
    \/ \E r \in Requests : HandleEnrollInsert(r[1], r[2])
    \/ \E u \in EnrollActors, sid \in EnrollTargets, c \in courses :
          InsertEnrollment(u, sid, c.id)
    \/ \E u \in EnrollActors, e \in enrollments, st \in Statuses :
          UpdateEnrollmentStatus(u, e, st)
    \/ \E u \in EnrollActors, e \in enrollments : DeleteEnrollment(u, e)

SpecEnroll == InitEnroll /\ [][NextEnroll]_vars

(***************************************************************************)
(* C2: in every interleaving of enroll attempts each (student_id,          *)
(* course_id) pair has at most one enrollment row, hence at most one       *)
(* active one; an attempt that the insert policy admits for a pair that    *)
(* already has a row returns Conflict and leaves enrollments unchanged.    *)
(***************************************************************************)
C2_EnrollUnique ==
    /\ \A e1, e2 \in enrollments :
          e1.student_id = e2.student_id /\ e1.course_id = e2.course_id => e1 = e2
    /\ last.op \in {"enroll", "insertEnrollment"} /\ last.old # NoRow
          /\ EnrollmentInsertCheck(last.actor, last.new)
          => last.result = "Conflict" /\ enrollments = last.before

\* A student's own second attempt was refused while a concurrent attempt of
\* the same student for the same course is still in flight.
C2_Witness ==
    /\ last.op = "enroll"
    /\ last.actor \in Students
    /\ last.result = "Conflict"
    /\ last.old.status = "active"
    /\ pending[<<last.actor, last.new.course_id>>] > 0

(***************************************************************************)
(* C11: an enrollment row is created by a principal that is not an admin   *)
(* only if the principal has the role student and the row's student_id is  *)
(* the principal's own id; no insert or update issued by a lecturer        *)
(* changes enrollments, and no insert by a student for another student     *)
(* creates a row.                                                          *)
(***************************************************************************)
C11_EnrollCreatePolicy ==
    /\ last.op \in {"enroll", "insertEnrollment"} /\ last.result = "Ok"
          /\ ~has_role(last.actor, "admin")
          => /\ has_role(last.actor, "student")
             /\ last.new.student_id = last.actor
             /\ last.new \in enrollments
    /\ last.op \in {"enroll", "insertEnrollment", "updateEnrollment"}
          /\ has_role(last.actor, "lecturer")
          => last.n = 0 /\ enrollments = last.before
    /\ last.op \in {"enroll", "insertEnrollment"} /\ has_role(last.actor, "student")
          /\ last.new.student_id \in Students \ {last.actor}
          => last.result = "Forbidden" /\ enrollments = last.before

\* A student's insert for another student was refused while the student has
\* a row of their own, created by their own insert.
C11_Witness ==
    /\ last.op = "insertEnrollment"
    /\ has_role(last.actor, "student")
    /\ last.new.student_id \in Students \ {last.actor}
    /\ last.result = "Forbidden"
    /\ \E e \in enrollments : e.student_id = last.actor

(***************************************************************************)
(* C15: an enroll request for which no principal can be resolved is        *)
(* answered with Unauthenticated, and a request that failed is never       *)
(* answered as a success or left without an answer.                        *)
(***************************************************************************)
C15_NoSilentFailure ==
    /\ last.op = "enroll" /\ last.actor = NoUser => last.result = "Unauthenticated"
    /\ last.op = "enroll" /\ last.n = 0 => last.result \notin {"Ok", "None"}

(***************************************************************************)
(* Reading assignments while enrollments and assignments change.           *)
(***************************************************************************)
InitRead ==
    /\ courses = FixtureCourses
    /\ enrollments = {}
    /\ assignments = {}
    /\ submissions = {}
    /\ notifications = {}
    /\ pending = NoPending
    /\ requests = NoRequests
    /\ pages = NoPages
    /\ last = NoOutcome

\* The callers of the statements on assignments in the model.
AssignmentActors == {"lec1", "lec2", "stu1"}
Readers == {"adm", "lec1", "stu1", "stu2"}

NextRead ==
    \/ \E u \in AssignmentActors, c \in courses : InsertAssignment(u, c.id)
    \/ \E u \in AssignmentActors, a \in assignments : DeleteAssignment(u, a)
    \/ \E u \in Readers, c \in courses : SelectAssignments(u, c.id)
    \/ \E u \in Students, c \in courses : InsertEnrollment(u, u, c.id)
    \/ \E u \in {"adm"}, e \in enrollments, st \in Statuses :
          UpdateEnrollmentStatus(u, e, st)

SpecRead == InitRead /\ [][NextRead]_vars

\* The caller of the last statement has a row in enrollments for the course.
HasEnrollment(u, cid) == EnrollmentsOf(u, cid) # {}

HasActiveEnrollment(u, cid) == \E e \in EnrollmentsOf(u, cid) : e.status = "active"

C9_ActiveEnrollmentOnly ==
    /\ last.op = "selectAssignments"
    /\ last.actor \in Students
    /\ last.rows # {}
    => HasActiveEnrollment(last.actor, last.new.course_id)

(***************************************************************************)
(* Statements on submissions, from two assignments of two lecturers; stu1  *)
(* is enrolled in course 1 only, stu2 in no course.                        *)
(***************************************************************************)
FixtureEnrollments ==
    {[id |-> <<"stu1", 1, 0>>, student_id |-> "stu1", course_id |-> 1,
      status |-> "active"]}

InitSub ==
    /\ courses = FixtureCourses
    /\ enrollments = FixtureEnrollments
    /\ assignments = FixtureAssignments
    /\ submissions = {}
    /\ notifications = {}
    /\ pending = NoPending
    /\ requests = NoRequests
    /\ pages = NoPages
    /\ last = NoOutcome

\* Who inserts a submission, for whom and for which assignment, in the model.
SubmissionInserts ==
    {<<"stu1", "stu1", 1>>, <<"stu1", "stu1", 2>>, <<"stu2", "stu2", 1>>,
     <<"stu2", "stu1", 1>>, <<"lec1", "stu1", 1>>}

\* The callers of the updates of submissions in the model.
SubmissionEditors == {"stu1", "stu2", "lec1"}
Graders == {"adm", "lec1", "lec2", "stu1"}

NextSub ==
    \/ \E p \in SubmissionInserts, c \in Contents :
          InsertSubmission(p[1], p[3], p[2], c)
    \/ \E u \in SubmissionEditors, x \in submissions, c \in Contents :
          UpdateSubmissionContent(u, x, c)
    \/ \E u \in Graders, x \in submissions : GradeSubmission(u, x)
    \/ \E u \in Users : SelectSubmissions(u)
    \/ \E u \in Users : SelectEnrollments(u)

SpecSub == InitSub /\ [][NextSub]_vars

\* The creator of the course that owns the submission's assignment.
CourseCreatorOf(x) ==
    LET a == CHOOSE y \in assignments : y.id = x.assignment_id
        c == CHOOSE y \in courses : y.id = a.course_id
    IN c.created_by

(***************************************************************************)
(* C3: a second create for an (assignment_id, student_id) pair that has a  *)
(* row returns Conflict; the pair keeps exactly one row and the first      *)
(* submission is unchanged.                                                *)
(***************************************************************************)
C3_SubmitTwiceConflict ==
    /\ \A x1, x2 \in submissions :
          x1.assignment_id = x2.assignment_id /\ x1.student_id = x2.student_id
             => x1 = x2
    /\ last.op = "insertSubmission" /\ last.old # NoRow
          /\ SubmissionInsertCheck(last.actor, last.new)
          => /\ last.result = "Conflict"
             /\ submissions = last.before
             /\ SubmissionsOf(last.new.assignment_id, last.new.student_id) = {last.old}

C3_Witness ==
    /\ last.op = "insertSubmission"
    /\ last.actor \in Students
    /\ last.result = "Conflict"
    /\ last.new.content # last.old.content

C10_SubmitNeedsEnrollment ==
    /\ last.op = "insertSubmission"
    /\ last.actor \in Students
    /\ last.result = "Ok"
    => /\ last.new.student_id = last.actor
       /\ \E a \in assignments :
             /\ a.id = last.new.assignment_id
             /\ HasActiveEnrollment(last.actor, a.course_id)

(***************************************************************************)
(* C17: a read by a student returns no enrollment and no submission whose  *)
(* student_id is another principal's, whatever rows the others have.       *)
(***************************************************************************)
C17_StudentReadsOwnRowsOnly ==
    last.op \in {"selectEnrollments", "selectSubmissions"} /\ last.actor \in Students
        => /\ \A x \in last.rows : x.student_id = last.actor
           /\ last.rows = {x \in last.before : x.student_id = last.actor}

\* A student read their submissions and got one, while the table also holds
\* a submission of another student and the enrollment of another student.
C17_Witness ==
    /\ last.op = "selectSubmissions"
    /\ last.actor \in Students
    /\ last.rows # {}
    /\ \E x \in submissions : x.student_id \in Students \ {last.actor}
    /\ \E e \in enrollments : e.student_id \in Students \ {last.actor}

(***************************************************************************)
(* The ownership chain course, assignment, submission under creates and    *)
(* deletes: courses are deleted and created again while enrollments,       *)
(* assignments and submissions are inserted, also for courses and          *)
(* assignments that no longer exist.                                       *)
(***************************************************************************)
\* The admin creates assignments in the course of lec1, lec1 in any course;
\* stu1 enrolls in the first and in the last course id, which may not exist.
ChainDeleters == {"adm", "lec2"}

NextChain ==
    \/ CreateCourse("lec1", "t1")
    \/ \E u \in ChainDeleters, id \in CourseIds : DeleteCourse(u, id)
    \/ \E id \in CourseIds : InsertAssignment("lec1", id)
    \/ InsertAssignment("adm", 1)
    \/ \E a \in assignments : DeleteAssignment("lec1", a)
    \/ \E id \in {1, MaxCourses} : InsertEnrollment("stu1", "stu1", id)
    \/ \E id \in AssignmentIds : InsertSubmission("stu1", id, "stu1", "answer")

SpecChain == InitRead /\ [][NextChain]_vars

(***************************************************************************)
(* C21: the created_by of an assignment is the created_by of its course    *)
(* at the time the assignment is created, also when an admin creates it in *)
(* a course the admin did not create.                                      *)
(***************************************************************************)
C21_AssignmentCreatorIsCourseCreator ==
    last.op = "insertAssignment" /\ last.result = "Ok"
        => last.new.created_by = CourseById(last.new.course_id).created_by

(***************************************************************************)
(* C22: every enrollment and every assignment references an existing       *)
(* course and every submission an existing assignment; after a course is   *)
(* deleted none of its enrollments and assignments and none of the         *)
(* submissions of those assignments is left.                               *)
(***************************************************************************)
C22_ReferentialIntegrity ==
    /\ \A e \in enrollments : \E c \in courses : c.id = e.course_id
    /\ \A a \in assignments : \E c \in courses : c.id = a.course_id
    /\ \A x \in submissions : \E a \in assignments : a.id = x.assignment_id
    /\ last.op = "deleteCourse" /\ last.n = 1
          => /\ last.old \notin courses
             /\ \A x \in last.rows : x \notin submissions

\* A course was deleted together with a submission of one of its
\* assignments, while another course is left.
C22_Witness ==
    /\ last.op = "deleteCourse"
    /\ last.n = 1
    /\ last.rows # {}
    /\ courses # {}

(***************************************************************************)
(* Updates of single grading columns of a submission, as the policies      *)
(* admit them: the table has no constraint that ties grade, graded_at and  *)
(* graded_by together, and a policy restricts rows, not columns.           *)
(***************************************************************************)
GradingColumns == {"grade", "graded_at", "graded_by"}

\* The row after update submissions set <col> = <value>, sent by user u.
PatchedSubmission(old, col, u) ==
    IF col = "grade" THEN [old EXCEPT !.grade = Some(GradeValue)]
    ELSE IF col = "graded_at" THEN [old EXCEPT !.graded_at = Some("now")]
    ELSE [old EXCEPT !.graded_by = Some(u)]

PatchSubmission(u, old, col) ==
    /\ old \in submissions
    /\ SubmissionUpdate("patchSubmission", u, old, PatchedSubmission(old, col, u))
    /\ UNCHANGED <<courses, enrollments, assignments, notifications, pending, requests, pages>>

\* insert into submissions with the grading columns supplied by the caller.
InsertGradedSubmission(u, aid, sid, c) ==
    /\ LET row == Graded(SubmissionRow(aid, sid, c), u)
           dup == SubmissionsOf(aid, sid)
           res == InsertResult(SubmissionInsertCheck(u, row), SubmissionDuplicate(row),
                               SubmissionForeignKey(row))
       IN /\ RoomFor(res, submissions, MaxSubmissions)
          /\ submissions' = IF res = "Ok" THEN submissions \cup {row} ELSE submissions
          /\ last' = Outcome("insertGradedSubmission", u, res,
                             IF res = "Ok" THEN 1 ELSE 0,
                             IF dup = {} THEN NoRow ELSE CHOOSE x \in dup : TRUE,
                             row, {}, submissions)
    /\ UNCHANGED <<courses, enrollments, assignments, notifications, pending, requests, pages>>

\* The student of the fixture, the lecturer of the course and the admin.
PatchActors == {"stu1", "lec1", "adm"}

NextPatch ==
    \/ \E c \in Contents : InsertSubmission("stu1", 1, "stu1", c)
    \/ InsertGradedSubmission("stu1", 1, "stu1", "answer")
    \/ \E u \in PatchActors, x \in submissions, c \in Contents :
          UpdateSubmissionContent(u, x, c)
    \/ \E u \in PatchActors, x \in submissions : GradeSubmission(u, x)
    \/ \E u \in PatchActors, x \in submissions, col \in GradingColumns :
          PatchSubmission(u, x, col)

SpecPatch == InitSub /\ [][NextPatch]_vars

(***************************************************************************)
(* C20: in every reachable state the columns grade, graded_at and          *)
(* graded_by of a submission are all null or all set.                      *)
(***************************************************************************)
C20_GradingFieldsSetTogether ==
    \A x \in submissions :
        \/ x.grade = Null /\ x.graded_at = Null /\ x.graded_by = Null
        \/ x.grade # Null /\ x.graded_at # Null /\ x.graded_by # Null

(***************************************************************************)
(* C23: no statement of a student gives a submission a grade or changes    *)
(* its feedback, graded_at or graded_by: a row a student inserts has the   *)
(* four columns null, and an update by a student leaves them as they were. *)
(***************************************************************************)
C23_StudentNeverWritesGrading ==
    /\ last.op \in {"insertSubmission", "insertGradedSubmission"}
          /\ last.actor \in Students /\ last.result = "Ok"
          => /\ last.new.grade = Null
             /\ last.new.feedback = Null
             /\ last.new.graded_at = Null
             /\ last.new.graded_by = Null
    /\ last.op \in {"updateSubmission", "gradeSubmission", "patchSubmission"}
          /\ last.actor \in Students /\ last.n = 1
          => /\ last.new.grade = last.old.grade
             /\ last.new.feedback = last.old.feedback
             /\ last.new.graded_at = last.old.graded_at
             /\ last.new.graded_by = last.old.graded_by

(***************************************************************************)
(* C24: an update by a lecturer changes only grade, feedback, graded_by    *)
(* and graded_at of the targeted submission; its content, student_id and   *)
(* assignment_id and every other row are unchanged.                        *)
(***************************************************************************)
C24_LecturerChangesGradingOnly ==
    last.op \in {"updateSubmission", "gradeSubmission", "patchSubmission"}
        /\ last.actor \in Lecturers
        => /\ last.n = 1 => /\ last.new.content = last.old.content
                            /\ last.new.student_id = last.old.student_id
                            /\ last.new.assignment_id = last.old.assignment_id
                            /\ last.new.id = last.old.id
                            /\ submissions \ {last.new} = last.before \ {last.old}
           /\ last.n = 0 => submissions = last.before

(***************************************************************************)
(* notifications and the services that write them                          *)
(***************************************************************************)
\* read BOOLEAN NOT NULL DEFAULT false
DefaultReadTrue == TRUE
DefaultRead == FALSE

\* The rows generated for the event (type, ref) and the user u, whatever an
\* update made of their columns since.
NotificationsOf(type, ref, u) ==
    {x \in notifications : x.id[1] = type /\ x.id[2] = ref /\ x.id[3] = u}

\* title and message name the event and the row it is about (ref).
NotificationRow(type, ref, u) ==
    [id |-> <<type, ref, u, Cardinality(NotificationsOf(type, ref, u))>>,
     user_id |-> u, type |-> type, ref |-> ref, read |-> DefaultRead]

\* Assignment created: the principals with an active enrollment in the course.
AssignmentCreatedRecipientsAnyStatus(a) ==
    {e.student_id : e \in {x \in enrollments : x.course_id = a.course_id}}
AssignmentCreatedRecipients(a) ==
    {e.student_id : e \in {x \in enrollments :
        x.course_id = a.course_id /\ x.status = "active"}}

\* Submission created: the lecturer owning the assignment's course.
SubmissionCreatedRecipients(x) == {CourseCreatorOf(x)}

\* Submission graded: the submitting student.
GradedRecipients(x) == {x.student_id}

\* One row per recipient of the event.
FanOut(type, ref, recipients) == {NotificationRow(type, ref, u) : u \in recipients}

\* assignment-service 'create': insert the assignment as the caller, then
\* notify the enrolled students.
AssignmentServiceCreate(u, cid) ==
    /\ FreeAssignmentIds # {}
    /\ LET row == AssignmentRow(NextAssignmentId, cid, u)
           res == InsertResult(AssignmentManageUsing(u, row), FALSE,
                               AssignmentForeignKey(row))
           added == IF res = "Ok"
                    THEN FanOut("assignment_created", row.id,
                                AssignmentCreatedRecipients(row))
                    ELSE {}
       IN /\ Cardinality(notifications \cup added) <= MaxNotifications
          /\ assignments' = IF res = "Ok" THEN assignments \cup {row} ELSE assignments
          /\ notifications' = notifications \cup added
          /\ last' = Outcome("createAssignment", u, res, IF res = "Ok" THEN 1 ELSE 0,
                             NoRow, row, added, notifications)
    /\ UNCHANGED <<courses, enrollments, submissions, pending, requests, pages>>

\* submission-service 'create': insert the submission as the caller, then
\* notify the lecturer.
SubmissionServiceCreate(u, aid, c) ==
    /\ \E a \in assignments : a.id = aid
    /\ LET row == SubmissionRow(aid, u, c)
           dup == SubmissionsOf(aid, u)
           res == InsertResult(SubmissionInsertCheck(u, row), SubmissionDuplicate(row),
                               SubmissionForeignKey(row))
           added == IF res = "Ok"
                    THEN FanOut("submission_created", row.id,
                                SubmissionCreatedRecipients(row))
                    ELSE {}
       IN /\ Cardinality(notifications \cup added) <= MaxNotifications
          /\ RoomFor(res, submissions, MaxSubmissions)
          /\ submissions' = IF res = "Ok" THEN submissions \cup {row} ELSE submissions
          /\ notifications' = notifications \cup added
          /\ last' = Outcome("createSubmission", u, res, IF res = "Ok" THEN 1 ELSE 0,
                             IF dup = {} THEN NoRow ELSE CHOOSE x \in dup : TRUE,
                             row, added, notifications)
    /\ UNCHANGED <<courses, enrollments, assignments, pending, requests, pages>>

\* grading-service 'grade' and 'update-grade': update the submission as the
\* caller, then notify the student.
GradingServiceGrade(u, old) ==
    /\ old \in submissions
    /\ LET new == Graded(old, u)
           using == SubmissionSelectUsing(u, old) /\ SubmissionUpdateUsing(u, old)
           check == SubmissionUpdateUsing(u, new)
           n == UpdateCount(using, check)
           added == IF n = 1 THEN FanOut("graded", new.id, GradedRecipients(new))
                    ELSE {}
       IN /\ Cardinality(notifications \cup added) <= MaxNotifications
          /\ submissions' = IF n = 1 THEN (submissions \ {old}) \cup {new} ELSE submissions
          /\ notifications' = notifications \cup added
          /\ last' = Outcome("grade", u, UpdateResult(using, check), n, old, new,
                             added, notifications)
    /\ UNCHANGED <<courses, enrollments, assignments, pending, requests, pages>>

\* Course 1 has an active and a withdrawn student, course 2 two active ones.
NotifyEnrollments ==
    {[id |-> <<"stu1", 1, 0>>, student_id |-> "stu1", course_id |-> 1, status |-> "active"],
     [id |-> <<"stu2", 1, 0>>, student_id |-> "stu2", course_id |-> 1, status |-> "withdrawn"],
     [id |-> <<"stu1", 2, 0>>, student_id |-> "stu1", course_id |-> 2, status |-> "active"],
     [id |-> <<"stu2", 2, 0>>, student_id |-> "stu2", course_id |-> 2, status |-> "active"]}

InitNotify ==
    /\ courses = FixtureCourses
    /\ enrollments = NotifyEnrollments
    /\ assignments = {}
    /\ submissions = {}
    /\ notifications = {}
    /\ pending = NoPending
    /\ requests = NoRequests
    /\ pages = NoPages
    /\ last = NoOutcome

\* The callers of the services in the model.
ServiceCallers == {"adm", "lec1", "lec2", "stu1"}

NextNotify ==
    \/ \E u \in ServiceCallers, c \in courses : AssignmentServiceCreate(u, c.id)
    \/ \E u \in Students, a \in assignments : SubmissionServiceCreate(u, a.id, "answer")
    \/ \E u \in ServiceCallers, x \in submissions : GradingServiceGrade(u, x)

SpecNotify == InitNotify /\ [][NextNotify]_vars

NotificationSelectUsing(u, row) == u = row.user_id

\* "Users can update their own notifications": the USING expression, which
\* is also the test of the updated row since the policy has no WITH CHECK.
NotificationUpdateUsing(u, row) == u = row.user_id

\* Row-level security is enabled and no policy covers INSERT.
NotificationInsertCheck(u, row) == FALSE

\* The updates a caller sends: one column and its new value.
NotificationPatches ==
    {<<"read", TRUE>>, <<"read", FALSE>>, <<"type", "edited">>,
     <<"user_id", "stu1">>, <<"user_id", "stu2">>}

Patched(old, p) ==
    IF p[1] = "read" THEN [old EXCEPT !.read = p[2]]
    ELSE IF p[1] = "type" THEN [old EXCEPT !.type = p[2]]
    ELSE [old EXCEPT !.user_id = p[2]]

\* select * from notifications, run as user u.
SelectNotifications(u) ==
    /\ last' = Outcome("selectNotifications", u, "Ok", 0, NoRow, NoRow,
                       {x \in notifications : NotificationSelectUsing(u, x)},
                       notifications)
    /\ UNCHANGED <<courses, enrollments, assignments, submissions, notifications,
                   pending, requests, pages>>

\* update notifications set <column> = <value> where id = old.id, run as u.
UpdateNotification(u, old, p) ==
    /\ old \in notifications
    /\ LET new == Patched(old, p)
           using == NotificationSelectUsing(u, old) /\ NotificationUpdateUsing(u, old)
           check == NotificationUpdateUsing(u, new)
           n == UpdateCount(using, check)
       IN /\ notifications' = IF n = 1 THEN (notifications \ {old}) \cup {new}
                              ELSE notifications
          /\ last' = Outcome("updateNotification", u, UpdateResult(using, check), n,
                             old, new, {}, notifications)
    /\ UNCHANGED <<courses, enrollments, assignments, submissions, pending, requests, pages>>

\* insert into notifications (user_id, type, ...), run as user u.
InsertNotification(u, target) ==
    /\ LET row == NotificationRow("message", 0, target)
           res == InsertResult(NotificationInsertCheck(u, row), FALSE, TRUE)
       IN /\ RoomFor(res, notifications, MaxNotifications)
          /\ notifications' = IF res = "Ok" THEN notifications \cup {row}
                              ELSE notifications
          /\ last' = Outcome("insertNotification", u, res, IF res = "Ok" THEN 1 ELSE 0,
                             NoRow, row, {}, notifications)
    /\ UNCHANGED <<courses, enrollments, assignments, submissions, pending, requests, pages>>

\* send-notification: public, called without authentication; it sends the
\* notification the caller describes to the user the caller names.
SendNotification(caller, target) ==
    /\ Cardinality(notifications) < MaxNotifications
    /\ LET row == NotificationRow("message", 0, target)
       IN /\ notifications' = notifications \cup {row}
          /\ last' = Outcome("sendNotification", caller, "Ok", 1, NoRow, row, {},
                             notifications)
    /\ UNCHANGED <<courses, enrollments, assignments, submissions, pending, requests, pages>>

\* Assignment 1 of course 2 was announced to the two active students.
InboxAssignments == {AssignmentRow(1, 2, "lec2")}

InboxNotifications ==
    {[id |-> <<"assignment_created", 1, u, 0>>, user_id |-> u,
      type |-> "assignment_created", ref |-> 1, read |-> DefaultRead] :
        u \in {"stu1", "stu2"}}

InitInbox ==
    /\ courses = FixtureCourses
    /\ enrollments = NotifyEnrollments
    /\ assignments = InboxAssignments
    /\ submissions = {}
    /\ notifications = InboxNotifications
    /\ pending = NoPending
    /\ requests = NoRequests
    /\ pages = NoPages
    /\ last = NoOutcome

\* The principals that use the table, and the callers of send-notification.
InboxUsers == {"adm", "stu1", "stu2"}
SendCallers == {NoUser, "stu2"}
SendTargets == {"stu1"}

NextInbox ==
    \/ \E u \in InboxUsers : SelectNotifications(u)
    \/ \E u \in InboxUsers, x \in notifications, p \in NotificationPatches :
          UpdateNotification(u, x, p)
    \/ \E u \in InboxUsers, t \in SendTargets : InsertNotification(u, t)
    \/ \E u \in SendCallers, t \in SendTargets : SendNotification(u, t)

SpecInbox == InitInbox /\ [][NextInbox]_vars

(***************************************************************************)
(* C12: a principal reads and updates only the notifications whose user_id *)
(* is the principal's id, and an update changes no column but read: the    *)
(* updated row keeps its user_id, type and content.                        *)
(***************************************************************************)
C12_OnlyReadFlagMutable ==
    /\ last.op = "selectNotifications" => \A x \in last.rows : x.user_id = last.actor
    /\ last.op = "updateNotification" /\ last.n = 1
          => /\ last.old.user_id = last.actor
             /\ last.new.user_id = last.old.user_id
             /\ last.new.type = last.old.type
             /\ last.new.ref = last.old.ref

(***************************************************************************)
(* C13: no request of an external caller, authenticated or not, creates a  *)
(* notification: neither an insert into the table nor a call of            *)
(* send-notification adds a row.                                           *)
(***************************************************************************)
C13_NoExternalCreate ==
    last.op \in {"insertNotification", "sendNotification"}
        => notifications = last.before

(***************************************************************************)
(* The action dispatcher of a protected service, here assignment-service   *)
(* 'create': a request is received, authenticated, authorized, executed    *)
(* against the store, followed by its notification fan-out, and answered.  *)
(* Each step is one suspension point, so requests interleave with each     *)
(* other and with a change of the course's owner.                          *)
(***************************************************************************)
\* The successive phases of a request that does not fail.
PhaseOrder ==
    {<<"Idle", "Received">>, <<"Received", "Authenticated">>,
     <<"Authenticated", "Authorized">>, <<"Authorized", "Executed">>,
     <<"Executed", "SideEffected">>, <<"SideEffected", "Responded">>}

TerminalPhases == {"Responded", "Failed"}

InFlightPhases ==
    {"Received", "Authenticated", "Authorized", "Executed", "SideEffected"}

DispatchOps ==
    {"receive", "authenticate", "authorize", "execute", "fanOut", "respond",
     "disconnect"}

\* The credentials requests arrive with, and the course they name.
DispatchCallers == {NoUser, "lec1", "lec2"}
DispatchCourse == 1

Failed(req, kind) == [req EXCEPT !.phase = "Failed", !.kind = kind]

\* JWT verification: ENABLED. A request without a valid token is refused.
AuthenticatedAlways(caller) == TRUE
Authenticated(caller) == caller # NoUser

\* The policy as the store evaluates it inside the INSERT statement.
WriteCheckTrusting(u, row) == TRUE
WriteCheck(u, row) == AssignmentManageUsing(u, row)

\* The request after its fan-out: a failure of the fan-out is logged and the
\* request goes on.
AfterFanOutFailing(req, ok) ==
    IF ok THEN [req EXCEPT !.phase = "SideEffected", !.fanout = "sent"]
    ELSE [req EXCEPT !.phase = "Failed", !.kind = "NotificationError",
                     !.fanout = "failed"]
AfterFanOut(req, ok) ==
    [req EXCEPT !.phase = "SideEffected", !.fanout = IF ok THEN "sent" ELSE "failed"]

\* The request after its caller went away: the steps go on without it.
AfterDisconnectCancelled(req) ==
    [req EXCEPT !.connected = FALSE, !.phase = "Failed", !.kind = "Cancelled"]
AfterDisconnect(req) == [req EXCEPT !.connected = FALSE]

\* One step of the request in slot r.
DispatchStep(r, op, result, n, new, rows) ==
    /\ requests' = [requests EXCEPT ![r] = new]
    /\ last' = Outcome(op, requests[r].caller, result, n, requests[r], new, rows,
                       assignments)

DispatchReceive(r, caller) ==
    /\ requests[r].phase = "Idle"
    /\ requests' = [requests EXCEPT ![r] = [@ EXCEPT !.phase = "Received",
                                                     !.caller = caller]]
    /\ last' = Outcome("receive", caller, "Ok", 0, requests[r], requests'[r], {},
                       assignments)
    /\ UNCHANGED <<courses, enrollments, assignments, submissions, notifications,
                   pending, pages>>

DispatchAuthenticate(r) ==
    /\ requests[r].phase = "Received"
    /\ IF Authenticated(requests[r].caller)
       THEN DispatchStep(r, "authenticate", "Ok", 0,
                         [requests[r] EXCEPT !.phase = "Authenticated"], {})
       ELSE DispatchStep(r, "authenticate", "Unauthenticated", 0,
                         Failed(requests[r], "Unauthenticated"), {})
    /\ UNCHANGED <<courses, enrollments, assignments, submissions, notifications,
                   pending, pages>>

\* The policy is evaluated on the snapshot read at this step.
DispatchAuthorize(r) ==
    /\ requests[r].phase = "Authenticated"
    /\ LET snapshot == AssignmentRow(0, DispatchCourse, requests[r].caller)
       IN IF ~AssignmentForeignKey(snapshot)
          THEN DispatchStep(r, "authorize", "NotFound", 0,
                            Failed(requests[r], "NotFound"), {})
          ELSE IF AssignmentManageUsing(requests[r].caller, snapshot)
          THEN DispatchStep(r, "authorize", "Ok", 0,
                            [requests[r] EXCEPT !.phase = "Authorized"], {})
          ELSE DispatchStep(r, "authorize", "Forbidden", 0,
                            Failed(requests[r], "Forbidden"), {})
    /\ UNCHANGED <<courses, enrollments, assignments, submissions, notifications,
                   pending, pages>>

\* The insert runs as the caller; the store may also fail.
DispatchExecute(r, fault) ==
    /\ requests[r].phase = "Authorized"
    /\ FreeAssignmentIds # {}
    /\ LET u == requests[r].caller
           row == AssignmentRow(NextAssignmentId, DispatchCourse, u)
           res == IF fault THEN "StoreError"
                  ELSE InsertResult(WriteCheck(u, row), FALSE,
                                    AssignmentForeignKey(row))
       IN IF res = "Ok"
          THEN /\ assignments' = assignments \cup {row}
               /\ DispatchStep(r, "execute", res, 1,
                               [requests[r] EXCEPT !.phase = "Executed",
                                                   !.entity = row], {row})
          ELSE /\ assignments' = assignments
               /\ DispatchStep(r, "execute", res, 0, Failed(requests[r], res), {})
    /\ UNCHANGED <<courses, enrollments, submissions, notifications, pending, pages>>

\* The fan-out of the committed mutation; it may fail.
DispatchFanOut(r, ok) ==
    /\ requests[r].phase = "Executed"
    /\ LET row == requests[r].entity
           added == IF ok
                    THEN FanOut("assignment_created", row.id,
                                AssignmentCreatedRecipients(row))
                    ELSE {}
       IN /\ notifications' = notifications \cup added
          /\ DispatchStep(r, "fanOut", IF ok THEN "Ok" ELSE "NotificationError",
                          Cardinality(added), AfterFanOut(requests[r], ok), added)
    /\ UNCHANGED <<courses, enrollments, assignments, submissions, pending, pages>>

DispatchRespond(r) ==
    /\ requests[r].phase = "SideEffected"
    /\ DispatchStep(r, "respond", "Ok", 0,
                    [requests[r] EXCEPT !.phase = "Responded"], {})
    /\ UNCHANGED <<courses, enrollments, assignments, submissions, notifications,
                   pending, pages>>

Disconnect(r) ==
    /\ requests[r].phase \in InFlightPhases
    /\ requests[r].connected
    /\ DispatchStep(r, "disconnect", "Ok", 0, AfterDisconnect(requests[r]), {})
    /\ UNCHANGED <<courses, enrollments, assignments, submissions, notifications,
                   pending, pages>>

\* course-service 'update' naming another lecturer as the course's creator.
TransferCourse(u, id, owner) ==
    /\ \E c \in courses : c.id = id
    /\ LET old == CourseById(id)
           new == [old EXCEPT !.created_by = owner, !.lecturer_id = owner]
           using == CourseManageUsing(u, old)
           check == CourseManageUsing(u, new)
           n == UpdateCount(using, check)
       IN /\ new # old
          /\ courses' = IF n = 1 THEN (courses \ {old}) \cup {new} ELSE courses
          /\ last' = Outcome("transferCourse", u, UpdateResult(using, check), n,
                             old, new, {}, courses)
    /\ UNCHANGED <<enrollments, assignments, submissions, notifications, pending,
                   requests, pages>>

InitDispatch ==
    /\ courses = FixtureCourses
    /\ enrollments = NotifyEnrollments
    /\ assignments = {}
    /\ submissions = {}
    /\ notifications = {}
    /\ pending = NoPending
    /\ requests = NoRequests
    /\ pages = NoPages
    /\ last = NoOutcome

NextDispatch ==
    \/ \E r \in Slots, u \in DispatchCallers : DispatchReceive(r, u)
    \/ \E r \in Slots : DispatchAuthenticate(r)
    \/ \E r \in Slots : DispatchAuthorize(r)
    \/ \E r \in Slots, fault \in BOOLEAN : DispatchExecute(r, fault)
    \/ \E r \in Slots, ok \in BOOLEAN : DispatchFanOut(r, ok)
    \/ \E r \in Slots : DispatchRespond(r)
    \/ \E r \in Slots : Disconnect(r)
    \/ \E owner \in Lecturers : TransferCourse("adm", DispatchCourse, owner)

SpecDispatch == InitDispatch /\ [][NextDispatch]_vars

\* The service runs a request to its end once it has started it.
SpecDispatchFair ==
    /\ SpecDispatch
    /\ \A r \in Slots : WF_vars(\E ok \in BOOLEAN : DispatchFanOut(r, ok))

(***************************************************************************)
(* C14: a fan-out that fails after a successful mutation leaves the        *)
(* mutated row committed and does not fail the request, which goes on to   *)
(* its success response.                                                   *)
(***************************************************************************)
C14_FanOutFailureIsSwallowed ==
    /\ last.op = "fanOut" /\ last.result = "NotificationError"
          => /\ assignments = last.before
             /\ last.old.entity \in assignments
             /\ last.new.phase = "SideEffected"
             /\ last.new.kind = "None"
    /\ \A r \in Slots :
          requests[r].fanout = "failed"
              => /\ requests[r].phase \in {"SideEffected", "Responded"}
                 /\ requests[r].kind = "None"
                 /\ requests[r].entity \in assignments

\* A request was answered with success although its fan-out had failed: its
\* assignment is in the table and nobody was notified of it.
C14_Witness ==
    \E r \in Slots :
        /\ requests[r].fanout = "failed"
        /\ requests[r].phase = "Responded"
        /\ requests[r].entity \in assignments
        /\ ~\E x \in notifications : x.ref = requests[r].entity.id

CourseParams == {Null, Some(1)}

\* finally { setLoading(false) }, after the data was set or the error caught.
Finished(page, data, toast) ==
    [page EXCEPT !.pc = "done", !.loading = FALSE, !.data = data, !.toast = toast]

\* A return that leaves the function outside its try statement.
Returned(page) == [page EXCEPT !.pc = "done"]

PageStep(p, new) ==
    /\ pages' = [pages EXCEPT ![p] = new]
    /\ UNCHANGED <<courses, enrollments, assignments, submissions, notifications,
                   pending, requests, last>>

\* EnrollmentsPage.fetchEnrollments, run on mount and when courseId changes.
FetchEnrollmentsStart(courseId) ==
    /\ pages["EnrollmentsPage"].pc \in {"idle", "done"}
    /\ PageStep("EnrollmentsPage",
                IF courseId = Null THEN Returned(pages["EnrollmentsPage"])
                ELSE [pages["EnrollmentsPage"] EXCEPT !.pc = "course"])

FetchEnrollmentsCourse(courseError) ==
    /\ pages["EnrollmentsPage"].pc = "course"
    /\ PageStep("EnrollmentsPage",
                IF courseError
                THEN Finished(pages["EnrollmentsPage"], pages["EnrollmentsPage"].data, TRUE)
                ELSE [pages["EnrollmentsPage"] EXCEPT !.pc = "enrollments"])

FetchEnrollmentsRows(error) ==
    /\ pages["EnrollmentsPage"].pc = "enrollments"
    /\ PageStep("EnrollmentsPage",
                IF error
                THEN Finished(pages["EnrollmentsPage"], pages["EnrollmentsPage"].data, TRUE)
                ELSE [pages["EnrollmentsPage"] EXCEPT !.pc = "profiles"])

FetchEnrollmentsProfiles ==
    /\ pages["EnrollmentsPage"].pc = "profiles"
    /\ PageStep("EnrollmentsPage",
                Finished(pages["EnrollmentsPage"], TRUE, pages["EnrollmentsPage"].toast))

\* StudentDashboard.fetchData, run on mount and after a successful enroll.
FetchDataGetUser(user) ==
    /\ pages["StudentDashboard"].pc \in {"idle", "done"}
    /\ PageStep("StudentDashboard",
                IF user = NoUser
                THEN Finished(pages["StudentDashboard"], pages["StudentDashboard"].data,
                              pages["StudentDashboard"].toast)
                ELSE [pages["StudentDashboard"] EXCEPT !.pc = "enrollments"])

FetchDataEnrollments(enrollError) ==
    /\ pages["StudentDashboard"].pc = "enrollments"
    /\ PageStep("StudentDashboard",
                IF enrollError
                THEN Finished(pages["StudentDashboard"], pages["StudentDashboard"].data, TRUE)
                ELSE [pages["StudentDashboard"] EXCEPT !.pc = "courses"])

FetchDataCourses(coursesError) ==
    /\ pages["StudentDashboard"].pc = "courses"
    /\ PageStep("StudentDashboard",
                IF coursesError
                THEN Finished(pages["StudentDashboard"], pages["StudentDashboard"].data, TRUE)
                ELSE Finished(pages["StudentDashboard"], TRUE,
                              pages["StudentDashboard"].toast))

\* AnalyticsPage.fetchAnalytics, run on mount.
FetchAnalyticsGetUser(user) ==
    /\ pages["AnalyticsPage"].pc = "idle"
    /\ PageStep("AnalyticsPage",
                IF user = NoUser
                THEN Finished(pages["AnalyticsPage"], FALSE, FALSE)
                ELSE [pages["AnalyticsPage"] EXCEPT !.pc = "enrollments"])

\* The query returns rows, or no data (its error is not looked at), or the
\* call is rejected.
FetchAnalyticsEnrollments(outcome) ==
    /\ pages["AnalyticsPage"].pc = "enrollments"
    /\ PageStep("AnalyticsPage",
                IF outcome = "rows" THEN [pages["AnalyticsPage"] EXCEPT !.pc = "progress"]
                ELSE IF outcome = "null" THEN Finished(pages["AnalyticsPage"], FALSE, FALSE)
                ELSE Finished(pages["AnalyticsPage"], FALSE, TRUE))

\* The queries of the loop over the enrolled courses, then setProgress.
FetchAnalyticsProgress(thrown) ==
    /\ pages["AnalyticsPage"].pc = "progress"
    /\ PageStep("AnalyticsPage",
                IF thrown THEN Finished(pages["AnalyticsPage"], FALSE, TRUE)
                ELSE Finished(pages["AnalyticsPage"], TRUE, FALSE))

NextPages ==
    \/ \E courseId \in CourseParams : FetchEnrollmentsStart(courseId)
    \/ \E e \in BOOLEAN : FetchEnrollmentsCourse(e)
    \/ \E e \in BOOLEAN : FetchEnrollmentsRows(e)
    \/ FetchEnrollmentsProfiles
    \/ \E u \in DashboardUsers : FetchDataGetUser(u)
    \/ \E e \in BOOLEAN : FetchDataEnrollments(e)
    \/ \E e \in BOOLEAN : FetchDataCourses(e)
    \/ \E u \in DashboardUsers : FetchAnalyticsGetUser(u)
    \/ \E o \in {"rows", "null", "throw"} : FetchAnalyticsEnrollments(o)
    \/ \E t \in BOOLEAN : FetchAnalyticsProgress(t)

SpecPages == InitSub /\ [][NextPages]_vars

(***************************************************************************)
(* C25: once the fetch of a page has finished, on any path, the page is    *)
(* no longer loading.                                                      *)
(***************************************************************************)
C25_LoadingEnds ==
    \A p \in Pages : pages[p].pc = "done" => ~pages[p].loading
====
